---- MODULE Spec2Model ----
(***************************************************************************)
(* Biometric Auditor: the compliance evaluator (agents/compliance_agent.py)*)
(* and the history store (history_manager.py) as state machines.           *)
(*                                                                         *)
(* Units: sleep_hours is a float in the source; here it is counted in      *)
(* tenths of an hour (4.9 h = 49), so the thresholds 5.0 and 6.0 are 50    *)
(* and 60.  Timestamps are whole days of a logical clock `now`.            *)
(* An optional value (a missing dict key, a None argument) is the empty    *)
(* sequence <<>>, a present one is <<v>>.                                  *)
(***************************************************************************)
EXTENDS Integers, Sequences, FiniteSets, TLC

VARIABLES
    file,       \* the durable history file: [kind, users]
    now,        \* the wall clock read by datetime.now(), in days
    resp,       \* what the last call returned to its caller
    io,         \* how the last _save_history ended
    tx,         \* the store a failed or interrupted call loaded and meant to write
    returned,   \* per user, the entries add_entry returned since the file was
                \* last lost, in call order
    snap,       \* the biometrics dict handed to check_compliance
    result,     \* what check_compliance returned
    pc,         \* per client of the concurrent store: "idle" or "loaded"
    hist        \* per client: the history dict it loaded and modified

vars == <<file, now, resp, io, tx, returned, snap, result, pc, hist>>

storeVars == <<file, now, resp, io, tx, returned>>
evalVars == <<snap, result>>
clientVars == <<pc, hist>>

(***************************************************************************)
(* Bounds of the model.                                                    *)
(***************************************************************************)
MaxEntries == 2
MaxTime == 1

Users == {"u1", "u2"}
Plans == {"run"}

Some(v) == <<v>>
None == <<>>
IsNone(o) == o = <<>>
Val(o) == o[1]

(***************************************************************************)
(* Compliance evaluator: agents/compliance_agent.py                        *)
(***************************************************************************)
SleepCritical == 50
SleepWarning == 60
HrCritical == 95
HrWarning == 80
RecoveryCritical == 40
RecoveryWarning == 60
CriticalPenalty == 3
WarningPenalty == 1

SleepValues == {0, 49, 50, 59, 60, 75}
HrValues == {0, 60, 80, 81, 95, 96}
RecoveryValues == {0, 39, 40, 59, 60, 100}

Opt(S) == {None} \cup {Some(v) : v \in S}

Snapshots ==
    [sleep_hours : Opt(SleepValues),
     resting_hr : Opt(HrValues),
     recovery_score : Opt(RecoveryValues)]

\* Get falling back to a mid-range reading instead of the caller's default
Get_Neutral(o, default) == IF IsNone(o) THEN 70 ELSE Val(o)

\* dict.get(key, 0)
Get(o, default) == IF IsNone(o) THEN default ELSE Val(o)

Reason(tier, metric, value) == [tier |-> tier, metric |-> metric, value |-> value]

InitialResult == [status |-> "Optimal", severity_score |-> 0, reasons |-> <<>>]

\* SleepChecks with the warning test as a second "if" instead of "elif"
SleepChecks_NoElif(r, sleep) ==
    LET c == IF sleep < SleepCritical
             THEN [status |-> "Critical",
                   severity_score |-> r.severity_score + CriticalPenalty,
                   reasons |-> Append(r.reasons, Reason("CRITICAL", "sleep", sleep))]
             ELSE r
    IN  IF sleep < SleepWarning
        THEN [status |-> IF c.status # "Critical" THEN "Warning" ELSE c.status,
              severity_score |-> c.severity_score + WarningPenalty,
              reasons |-> Append(c.reasons, Reason("Warning", "sleep", sleep))]
        ELSE c

SleepChecks(r, sleep) ==
    IF sleep < SleepCritical
    THEN [status |-> "Critical",
          severity_score |-> r.severity_score + CriticalPenalty,
          reasons |-> Append(r.reasons, Reason("CRITICAL", "sleep", sleep))]
    ELSE IF sleep < SleepWarning
    THEN [status |-> IF r.status # "Critical" THEN "Warning" ELSE r.status,
          severity_score |-> r.severity_score + WarningPenalty,
          reasons |-> Append(r.reasons, Reason("Warning", "sleep", sleep))]
    ELSE r

\* HrChecks with the warning branch assigning the status without looking at it
HrChecks_Downgrade(r, hr) ==
    IF hr > HrCritical
    THEN [status |-> "Critical",
          severity_score |-> r.severity_score + CriticalPenalty,
          reasons |-> Append(r.reasons, Reason("CRITICAL", "resting_hr", hr))]
    ELSE IF hr > HrWarning
    THEN [status |-> "Warning",
          severity_score |-> r.severity_score + WarningPenalty,
          reasons |-> Append(r.reasons, Reason("Warning", "resting_hr", hr))]
    ELSE r

HrChecks(r, hr) ==
    IF hr > HrCritical
    THEN [status |-> "Critical",
          severity_score |-> r.severity_score + CriticalPenalty,
          reasons |-> Append(r.reasons, Reason("CRITICAL", "resting_hr", hr))]
    ELSE IF hr > HrWarning
    THEN [status |-> IF r.status # "Critical" THEN "Warning" ELSE r.status,
          severity_score |-> r.severity_score + WarningPenalty,
          reasons |-> Append(r.reasons, Reason("Warning", "resting_hr", hr))]
    ELSE r

\* RecoveryChecks adding a penalty only when it changes the status
RecoveryChecks_PenaltyOnChange(r, recovery) ==
    IF recovery < RecoveryCritical
    THEN [status |-> "Critical",
          severity_score |-> IF r.status = "Critical" THEN r.severity_score
                             ELSE r.severity_score + CriticalPenalty,
          reasons |-> Append(r.reasons, Reason("CRITICAL", "recovery_score", recovery))]
    ELSE IF recovery < RecoveryWarning
    THEN [status |-> IF r.status # "Critical" THEN "Warning" ELSE r.status,
          severity_score |-> IF r.status = "Optimal"
                             THEN r.severity_score + WarningPenalty
                             ELSE r.severity_score,
          reasons |-> Append(r.reasons, Reason("Warning", "recovery_score", recovery))]
    ELSE r

RecoveryChecks(r, recovery) ==
    IF recovery < RecoveryCritical
    THEN [status |-> "Critical",
          severity_score |-> r.severity_score + CriticalPenalty,
          reasons |-> Append(r.reasons, Reason("CRITICAL", "recovery_score", recovery))]
    ELSE IF recovery < RecoveryWarning
    THEN [status |-> IF r.status # "Critical" THEN "Warning" ELSE r.status,
          severity_score |-> r.severity_score + WarningPenalty,
          reasons |-> Append(r.reasons, Reason("Warning", "recovery_score", recovery))]
    ELSE r

PriorityMessage(status) ==
    IF status = "Critical" THEN "rest"
    ELSE IF status = "Warning" THEN "caution"
    ELSE "cleared"

check_compliance(biometrics) ==
    LET sleep == Get(biometrics.sleep_hours, 0)
        hr == Get(biometrics.resting_hr, 0)
        recovery == Get(biometrics.recovery_score, 0)
        r == RecoveryChecks(HrChecks(SleepChecks(InitialResult, sleep), hr), recovery)
    IN  [status |-> r.status,
         severity_score |-> r.severity_score,
         reasons |-> r.reasons,
         priority_message |-> PriorityMessage(r.status),
         biometrics |-> biometrics]

NoResult == <<>>

(***************************************************************************)
(* History store: history_manager.py                                       *)
(*                                                                         *)
(* The durable file is [kind, users]: kind "json" is a parseable document  *)
(* with a "users" mapping (user_id -> user record); "missing" is no file;  *)
(* "garbage" is a file json.load rejects (empty, truncated); "unreadable"  *)
(* is a file open() refuses; "no_users" is a parseable document without    *)
(* the "users" key.  Every value the store writes is a JSON string, number *)
(* or boolean, so json.dump followed by json.load gives the same mapping.  *)
(***************************************************************************)
EmptyUsers == <<>>

JsonFile(users) == [kind |-> "json", users |-> users]
BadFile(kind) == [kind |-> kind, users |-> EmptyUsers]

BadKinds == {"missing", "garbage", "unreadable", "no_users"}

\* _load_history: raised = the exception left the function;
\* has_users = the returned dict has the "users" key
_load_history(f) ==
    IF f.kind = "json"
    THEN [raised |-> FALSE, has_users |-> TRUE, users |-> f.users]
    ELSE IF f.kind \in {"missing", "garbage"}
    THEN [raised |-> FALSE, has_users |-> TRUE, users |-> EmptyUsers]
    ELSE IF f.kind = "unreadable"
    THEN [raised |-> TRUE, has_users |-> FALSE, users |-> EmptyUsers]
    ELSE [raised |-> FALSE, has_users |-> FALSE, users |-> EmptyUsers]

\* history["users"] can be read
Loaded(ld) == ~ld.raised /\ ld.has_users

\* _save_history: open(..., 'w') truncates the file, json.dump then writes it.
\* outcome "complete": everything written; "open_failed": open() raised, the
\* file is untouched; "write_failed": an error after the truncation; "crash":
\* the process died after the truncation.
SaveOutcomes == {"complete", "open_failed", "write_failed", "crash"}

_save_history(f, users, outcome) ==
    IF outcome = "complete" THEN JsonFile(users)
    ELSE IF outcome = "open_failed" THEN f
    ELSE BadFile("garbage")

NewUser(t) ==
    [entries |-> <<>>, created_at |-> t, total_workouts |-> 0, completed_workouts |-> 0]

\* A text is the sequence of its character codes.
Ellipsis == <<46, 46, 46>>

\* s[:n]
Prefix(s, n) == IF Len(s) <= n THEN s ELSE SubSeq(s, 1, n)

PreviewLength == 200

\* Preview adding the ellipsis only to a text it has cut
Preview_EllipsisWhenCut(recommendation) ==
    IF Len(recommendation) > PreviewLength
    THEN Prefix(recommendation, PreviewLength) \o Ellipsis
    ELSE recommendation

\* recommendation[:200] + "..."
Preview(recommendation) == Prefix(recommendation, PreviewLength) \o Ellipsis

\* strftime("%A") and isocalendar()[1] of day t of the clock, day 0 being the
\* Monday of week 1: the weekday as 0..6 from Monday, the week from 1
Metadata(t) == [day_of_week |-> t % 7, week_number |-> (t \div 7) + 1]

\* the entry dict; "completed_at" is absent (None) until the first update,
\* compliance keeps status, severity_score and reasons of the result passed
NewEntry(id, biometrics, compliance, workout_plan, recommendation, completed, t) ==
    [id |-> id, timestamp |-> t,
     biometrics |-> biometrics,
     compliance |-> [status |-> compliance.status,
                     severity_score |-> compliance.severity_score,
                     reasons |-> compliance.reasons],
     workout_plan |-> workout_plan,
     recommendation_preview |-> Preview(recommendation),
     completed |-> completed, completed_at |-> None,
     metadata |-> Metadata(t)]

\* NextId counting from 0
NextId_FromZero(entries) == Len(entries)

\* "id": len(history["users"][user_id]["entries"]) + 1
NextId(entries) == Len(entries) + 1

\* CompletedAfterAdd without the `if completed`
CompletedAfterAdd_Ignored(count, completed) == count

\* if completed: completed_workouts += 1
CompletedAfterAdd(count, completed) == IF completed THEN count + 1 ELSE count

\* add_entry writing back the caller's record alone
add_entry_OnlyUser(users, u, biometrics, compliance, workout_plan, recommendation, completed, t) ==
    LET base == IF u \in DOMAIN users THEN users ELSE (u :> NewUser(t)) @@ users
        entry == NewEntry(NextId(base[u].entries), biometrics, compliance,
                          workout_plan, recommendation, completed, t)
        rec == [base[u] EXCEPT
                   !.entries = Append(@, entry),
                   !.total_workouts = @ + 1,
                   !.completed_workouts = CompletedAfterAdd(@, completed)]
    IN  [users |-> (u :> rec), entry |-> entry]

\* add_entry between _load_history and _save_history
add_entry(users, u, biometrics, compliance, workout_plan, recommendation, completed, t) ==
    LET base == IF u \in DOMAIN users THEN users ELSE (u :> NewUser(t)) @@ users
        entry == NewEntry(NextId(base[u].entries), biometrics, compliance,
                          workout_plan, recommendation, completed, t)
        rec == [base[u] EXCEPT
                   !.entries = Append(@, entry),
                   !.total_workouts = @ + 1,
                   !.completed_workouts = CompletedAfterAdd(@, completed)]
    IN  [users |-> [base EXCEPT ![u] = rec], entry |-> entry]

\* the index of the first entry with this id, 0 if there is none
FindEntry(entries, id) ==
    LET hits == {i \in 1..Len(entries) : entries[i].id = id}
    IN  IF hits = {} THEN 0 ELSE CHOOSE i \in hits : \A j \in hits : i <= j

\* CompletedDelta without the look at the old status
CompletedDelta_NoOldStatus(old_status, completed) ==
    IF completed THEN 1 ELSE -1

CompletedDelta(old_status, completed) ==
    IF completed /\ ~old_status THEN 1
    ELSE IF ~completed /\ old_status THEN -1
    ELSE 0

\* update_workout_completion between _load_history and _save_history
update_workout_completion(users, u, id, completed, t) ==
    IF u \notin DOMAIN users
    THEN [res |-> "NotFound", users |-> users, entry |-> None]
    ELSE LET i == FindEntry(users[u].entries, id)
         IN  IF i = 0
             THEN [res |-> "NotFound", users |-> users, entry |-> None]
             ELSE LET old == users[u].entries[i]
                      new == [old EXCEPT !.completed = completed,
                                         !.completed_at = Some(t)]
                      rec == [users[u] EXCEPT
                                 !.entries[i] = new,
                                 !.completed_workouts =
                                     @ + CompletedDelta(old.completed, completed)]
                  IN  [res |-> "ok", users |-> [users EXCEPT ![u] = rec],
                       entry |-> Some(new)]

RECURSIVE SelectRecent(_, _)
SelectRecent(entries, cutoff) ==
    IF entries = <<>> THEN <<>>
    ELSE IF Head(entries).timestamp > cutoff
         THEN <<Head(entries)>> \o SelectRecent(Tail(entries), cutoff)
         ELSE SelectRecent(Tail(entries), cutoff)

\* entries[-limit:] for limit > 0
LastN(entries, limit) ==
    IF limit >= Len(entries) THEN entries
    ELSE SubSeq(entries, Len(entries) - limit + 1, Len(entries))

\* get_user_history after _load_history; `if days:` and `if limit:` are
\* false for None and for 0
get_user_history(users, u, limit, days, t) ==
    IF u \notin DOMAIN users THEN <<>>
    ELSE LET all == users[u].entries
             recent == IF IsNone(days) \/ Val(days) = 0 THEN all
                       ELSE SelectRecent(all, t - Val(days))
         IN  IF IsNone(limit) \/ Val(limit) = 0 THEN recent
             ELSE LastN(recent, Val(limit))

\* round(completed / total * 100, 1), in tenths of a percent; no quotient
\* 1000 * completed / total with total < 16 lies halfway between two tenths
CompletionRate(completed, total) ==
    IF total > 0 THEN (2000 * completed + total) \div (2 * total) ELSE 0

\* get_stats after _load_history
get_stats(users, u) ==
    IF u \notin DOMAIN users
    THEN [user_id |-> u, total_workouts |-> 0, completed_workouts |-> 0,
          completion_rate |-> 0, member_since |-> None, total_entries |-> None]
    ELSE [user_id |-> u,
          total_workouts |-> users[u].total_workouts,
          completed_workouts |-> users[u].completed_workouts,
          completion_rate |->
              CompletionRate(users[u].completed_workouts, users[u].total_workouts),
          member_since |-> Some(users[u].created_at),
          total_entries |-> Some(Len(users[u].entries))]

(***************************************************************************)
(* Python float arithmetic: IEEE 754 binary64, round to nearest, ties to   *)
(* even.  A float is [s, m, e], standing for s * m * 2^e, with s in        *)
(* {-1, 0, 1} and m a mantissa of 53 bits (2^52 <= m < 2^53), m = 0 for    *)
(* 0.0.  A mantissa is wider than the 32-bit integers of TLC, so it is held *)
(* as four limbs of 15 bits, least significant first; the last limb takes  *)
(* what is above bit 45.  Infinities, NaN and subnormal values do not      *)
(* occur at the magnitudes of biometric readings and are left out.         *)
(***************************************************************************)
LimbBase == 32768
MantissaBits == 53

WZero == <<0, 0, 0, 0>>
WOne == <<1, 0, 0, 0>>

\* 0 <= n < 2^31
WFromInt(n) ==
    <<n % LimbBase, (n \div LimbBase) % LimbBase, n \div (LimbBase * LimbBase), 0>>

WAdd(a, b) ==
    LET s1 == a[1] + b[1]
        s2 == a[2] + b[2] + (s1 \div LimbBase)
        s3 == a[3] + b[3] + (s2 \div LimbBase)
        s4 == a[4] + b[4] + (s3 \div LimbBase)
    IN  <<s1 % LimbBase, s2 % LimbBase, s3 % LimbBase, s4>>

\* a - b for a >= b
WSub(a, b) ==
    LET d1 == a[1] - b[1]
        d2 == a[2] - b[2] - (IF d1 < 0 THEN 1 ELSE 0)
        d3 == a[3] - b[3] - (IF d2 < 0 THEN 1 ELSE 0)
        d4 == a[4] - b[4] - (IF d3 < 0 THEN 1 ELSE 0)
    IN  <<(d1 + LimbBase) % LimbBase, (d2 + LimbBase) % LimbBase,
          (d3 + LimbBase) % LimbBase, d4>>

WLess(a, b) ==
    \/ a[4] < b[4]
    \/ a[4] = b[4] /\ a[3] < b[3]
    \/ a[4] = b[4] /\ a[3] = b[3] /\ a[2] < b[2]
    \/ a[4] = b[4] /\ a[3] = b[3] /\ a[2] = b[2] /\ a[1] < b[1]

WOdd(a) == a[1] % 2 = 1

\* the lowest bit set when something below it was lost (sticky)
WJam(a, lost) == IF lost /\ ~WOdd(a) THEN WAdd(a, WOne) ELSE a

\* a * k for 0 <= k < LimbBase
WTimes(a, k) ==
    LET p1 == a[1] * k
        p2 == a[2] * k + (p1 \div LimbBase)
        p3 == a[3] * k + (p2 \div LimbBase)
        p4 == a[4] * k + (p3 \div LimbBase)
    IN  <<p1 % LimbBase, p2 % LimbBase, p3 % LimbBase, p4>>

RECURSIVE IntBitLen(_)
IntBitLen(n) == IF n = 0 THEN 0 ELSE 1 + IntBitLen(n \div 2)

WBitLen(a) ==
    IF a[4] > 0 THEN 45 + IntBitLen(a[4])
    ELSE IF a[3] > 0 THEN 30 + IntBitLen(a[3])
    ELSE IF a[2] > 0 THEN 15 + IntBitLen(a[2])
    ELSE IntBitLen(a[1])

\* a * 2^n, a limb at a time and then the bits left over
RECURSIVE WShl(_, _)
WShl(a, n) ==
    IF n >= 15 THEN WShl(<<0, a[1], a[2], a[3] + a[4] * LimbBase>>, n - 15)
    ELSE WTimes(a, 2^n)

\* a \div 2^k for 0 <= k < 15
WShr(a, k) ==
    LET p == 2^k
        up == LimbBase \div p
    IN  <<(a[1] \div p) + (a[2] % p) * up,
          (a[2] \div p) + (a[3] % p) * up,
          (a[3] \div p) + (a[4] % p) * up,
          a[4] \div p>>

\* a \div 2^n with a sticky lowest bit
RECURSIVE WShrJam(_, _)
WShrJam(a, n) ==
    IF n >= 15
    THEN WShrJam(WJam(<<a[2], a[3], a[4] % LimbBase, a[4] \div LimbBase>>,
                      a[1] # 0), n - 15)
    ELSE WJam(WShr(a, n), a[1] % (2^n) # 0)

FZero == [s |-> 0, m |-> WZero, e |-> 0]

\* [s, m, e] for a mantissa m of 53 or, after a carry out of the rounding,
\* of 54 bits
Pack(s, m, e) ==
    IF WBitLen(m) > MantissaBits THEN [s |-> s, m |-> WShr(m, 1), e |-> e + 1]
    ELSE [s |-> s, m |-> m, e |-> e]

\* `kept` rounded by the three bits below it: above one half up, one half to
\* the even mantissa, below one half down
RoundUp(kept, low) ==
    IF low > 4 \/ (low = 4 /\ WOdd(kept)) THEN WAdd(kept, WOne) ELSE kept

\* w of `len` bits brought to 53 + 3 bits
Aligned(w, len) ==
    IF len > MantissaBits + 3 THEN WShrJam(w, len - (MantissaBits + 3))
    ELSE WShl(w, (MantissaBits + 3) - len)

Rounded(s, n, e) == Pack(s, RoundUp(WShr(n, 3), n[1] % 8), e)

RoundAt(s, w, e, len) == Rounded(s, Aligned(w, len), e + (len - MantissaBits))

\* s * w * 2^e rounded to a float; a 1 in the lowest bit of w may stand for
\* digits below it
RoundPack(s, w, e) ==
    IF w = WZero THEN FZero ELSE RoundAt(s, w, e, WBitLen(w))

Sign(n) == IF n > 0 THEN 1 ELSE IF n < 0 THEN -1 ELSE 0

\* float(n) for an int n, |n| < 2^31
FromInt(n) == RoundPack(Sign(n), WFromInt(IF n < 0 THEN -n ELSE n), 0)

FNeg(x) == [x EXCEPT !.s = -x.s]

\* |x| < |y|
MagLess(x, y) ==
    IF x.s = 0 THEN y.s # 0
    ELSE IF y.s = 0 THEN FALSE
    ELSE x.e < y.e \/ (x.e = y.e /\ WLess(x.m, y.m))

\* x < y
FLess(x, y) ==
    IF x.s # y.s THEN x.s < y.s
    ELSE IF x.s = 0 THEN FALSE
    ELSE IF x.s > 0 THEN MagLess(x, y)
    ELSE MagLess(y, x)

\* wb + ws or wb - ws by the signs, rounded
AddAligned(big, wb, ws, same) ==
    RoundPack(big.s, IF same THEN WAdd(wb, ws) ELSE WSub(wb, ws), big.e - 3)

\* big + small for |big| >= |small| > 0: small is shifted to the exponent of
\* big with three guard bits, the shifted-out part kept as a sticky bit
AddOrdered(big, small, d) ==
    AddAligned(big, WShl(big.m, 3),
               WShrJam(WShl(small.m, 3), IF d > 60 THEN 60 ELSE d),
               big.s = small.s)

\* x + y
FAdd(x, y) ==
    IF x.s = 0 THEN y
    ELSE IF y.s = 0 THEN x
    ELSE IF MagLess(x, y) THEN AddOrdered(y, x, y.e - x.e)
    ELSE AddOrdered(x, y, x.e - y.e)

FSub(x, y) == FAdd(x, FNeg(y))

\* a \div 2^33: the leading bits of a, for a < 2^63
Lead(a) == (a[3] \div 8) + a[4] * 4096

\* the next digit of 10 bits of a long division: the j with
\* j * d <= up < (j + 1) * d, which lies within one of `est`
DigitNear(up, d, est) ==
    CHOOSE j \in (IF est = 0 THEN 0 ELSE est - 1)..(est + 1) :
        /\ ~WLess(up, WTimes(d, j))
        /\ WLess(up, WTimes(d, j + 1))

WithDigit(q, up, d, digit) ==
    [q |-> WAdd(WTimes(q, 1024), WFromInt(digit)),
     r |-> WSub(up, WTimes(d, digit))]

\* one digit more of q, for the remainder times 1024 `up`; `est` is the
\* quotient of the leading bits
DivStep(q, up, d) == WithDigit(q, up, d, DigitNear(up, d, Lead(up) \div Lead(d)))

\* n digits of 10 bits of the long division of st.r * 1024^n by d, for
\* st.r < d and a d of 53 bits
RECURSIVE DivSteps(_, _, _)
DivSteps(st, d, n) ==
    IF n = 0 THEN st
    ELSE DivSteps(DivStep(st.q, WTimes(st.r, 1024), d), d, n - 1)

\* the quotient st.q with a remainder left over kept as a sticky bit
Quotient(s, st, e) == RoundPack(s, WJam(st.q, st.r # WZero), e)

\* x / y for y # 0: the quotient of the mantissas to 60 binary places
FDiv(x, y) ==
    IF x.s = 0 THEN FZero
    ELSE Quotient(x.s * y.s,
                  DivSteps(IF WLess(x.m, y.m) THEN [q |-> WZero, r |-> x.m]
                           ELSE [q |-> WOne, r |-> WSub(x.m, y.m)], y.m, 6),
                  x.e - y.e - 60)

\* x * k for an int k, 0 < k < 128
FTimesInt(x, k) == RoundPack(x.s, WTimes(x.m, k), x.e)

(***************************************************************************)
(* get_trends: the halves of the filtered history, their means as Python   *)
(* computes them, the direction of each metric and the insights.           *)
(***************************************************************************)
\* sum() over floats adds from left to right in CPython before 3.12 and
\* carries a compensation term from 3.12 on; the repository names no version
SumBuilds == {"left_to_right", "compensated"}

\* a sleep reading of k tenths of an hour, as the float read from the file
FromTenths(k) == FDiv(FromInt(k), FromInt(10))

\* sum() over ints is exact
RECURSIVE SumInts(_)
SumInts(values) ==
    IF values = <<>> THEN 0 ELSE Head(values) + SumInts(Tail(values))

\* sum() over floats, one rounded addition after the other
RECURSIVE SumLeftToRight(_, _)
SumLeftToRight(total, values) ==
    IF values = <<>> THEN total
    ELSE SumLeftToRight(FAdd(total, Head(values)), Tail(values))

\* the running sum t = st.hi + x with the rounding error of that addition
\* added to st.c
Compensated(st, x, t) ==
    [hi |-> t,
     c |-> FAdd(st.c, IF ~MagLess(st.hi, x) THEN FAdd(FSub(st.hi, t), x)
                      ELSE FAdd(FSub(x, t), st.hi))]

\* sum() over floats with the rounding errors collected and added at the end
RECURSIVE SumCompensated(_, _)
SumCompensated(st, values) ==
    IF values = <<>>
    THEN IF st.c.s # 0 THEN FAdd(st.hi, st.c) ELSE st.hi
    ELSE SumCompensated(Compensated(st, Head(values), FAdd(st.hi, Head(values))),
                        Tail(values))

SumFloats(values, build) ==
    IF build = "compensated"
    THEN SumCompensated([hi |-> FZero, c |-> FZero], values)
    ELSE SumLeftToRight(FZero, values)

\* sum(values) / len(values) for a non-empty list; values with unit 10 are
\* tenths and stand for floats, values with unit 1 are ints
Mean(values, unit, build) ==
    FDiv(IF unit = 1 THEN FromInt(SumInts(values))
         ELSE SumFloats([i \in 1..Len(values) |-> FromTenths(values[i])], build),
         FromInt(Len(values)))

Directions == {"improving", "declining", "stable", "insufficient_data"}

\* if change_pct > 5 / elif change_pct < -5 / else
Classify(change_pct) ==
    IF FLess(FromInt(5), change_pct) THEN "improving"
    ELSE IF FLess(change_pct, FromInt(-5)) THEN "declining"
    ELSE "stable"

\* ((avg_second - avg_first) / avg_first) * 100 classified; the division
\* raises when avg_first is 0
ByChange(avg_first, avg_second) ==
    IF avg_first.s = 0 THEN "ZeroDivisionError"
    ELSE Classify(FTimesInt(FDiv(FSub(avg_second, avg_first), avg_first), 100))

_calculate_trend(first_half, second_half, unit, build) ==
    IF first_half = <<>> \/ second_half = <<>> THEN "insufficient_data"
    ELSE ByChange(Mean(first_half, unit, build), Mean(second_half, unit, build))

\* status_counts: how many entries each status that occurs has
StatusCounts(entries) ==
    [s \in {entries[i].compliance.status : i \in 1..Len(entries)} |->
        Cardinality({i \in 1..Len(entries) : entries[i].compliance.status = s})]

\* sum(status_counts.values())
SumValues(status_counts) ==
    LET RECURSIVE Sum(_)
        Sum(S) == IF S = {} THEN 0
                  ELSE LET k == CHOOSE x \in S : TRUE
                       IN  status_counts[k] + Sum(S \ {k})
    IN  Sum(DOMAIN status_counts)

\* status_counts.get(status, 0)
CountOf(status_counts, status) ==
    IF status \in DOMAIN status_counts THEN status_counts[status] ELSE 0

\* (count / total) * 100
Share(count, total) == FTimesInt(FDiv(FromInt(count), FromInt(total)), 100)

\* if avg_sleep < 7 / elif avg_sleep >= 8
SleepInsight(avg_sleep) ==
    IF FLess(avg_sleep, FromInt(7)) THEN <<"low_sleep">>
    ELSE IF ~FLess(avg_sleep, FromInt(8)) THEN <<"good_sleep">>
    ELSE <<>>

\* if avg_hr > 70 / elif avg_hr < 60
HrInsight(avg_hr) ==
    IF FLess(FromInt(70), avg_hr) THEN <<"high_hr">>
    ELSE IF FLess(avg_hr, FromInt(60)) THEN <<"good_hr">>
    ELSE <<>>

\* if critical_pct > 20 and if optimal_pct > 70
ShareInsights(status_counts, total) ==
    (IF FLess(FromInt(20), Share(CountOf(status_counts, "Critical"), total))
     THEN <<"critical_share">> ELSE <<>>)
    \o (IF FLess(FromInt(70), Share(CountOf(status_counts, "Optimal"), total))
        THEN <<"optimal_share">> ELSE <<>>)

\* if avg_recovery < 60
RecoveryInsight(avg_recovery) ==
    IF FLess(avg_recovery, FromInt(60)) THEN <<"low_recovery">> ELSE <<>>

\* return insights if insights else [the placeholder]
OrPlaceholder(insights) ==
    IF insights # <<>> THEN insights ELSE <<"keep_logging">>

\* _generate_insights: each insight is named by its kind, in place of its text
_generate_insights(sleep, hr, recovery, status_counts, build) ==
    OrPlaceholder(SleepInsight(Mean(sleep, 10, build))
                  \o HrInsight(Mean(hr, 1, build))
                  \o ShareInsights(status_counts, SumValues(status_counts))
                  \o RecoveryInsight(Mean(recovery, 1, build)))

\* NoDataReport with the default of 30 days in place of the days asked for
NoDataReport_DefaultDays(u, days) ==
    [error |-> "no_data", user_id |-> u, days_analyzed |-> 30]

\* the report of get_trends when the filtered history is empty
NoDataReport(u, days) ==
    [error |-> "no_data", user_id |-> u, days_analyzed |-> days]

\* [e["biometrics"][key] for e in entries]
Values(entries, key) == [i \in 1..Len(entries) |-> Val(entries[i].biometrics[key])]

\* the three directions for the halves split at mid
Trends(entries, mid, build) ==
    [sleep |-> _calculate_trend(SubSeq(Values(entries, "sleep_hours"), 1, mid),
                                SubSeq(Values(entries, "sleep_hours"), mid + 1,
                                       Len(entries)), 10, build),
     heart_rate |-> _calculate_trend(SubSeq(Values(entries, "resting_hr"), 1, mid),
                                     SubSeq(Values(entries, "resting_hr"), mid + 1,
                                            Len(entries)), 1, build),
     recovery |-> _calculate_trend(SubSeq(Values(entries, "recovery_score"), 1, mid),
                                   SubSeq(Values(entries, "recovery_score"),
                                          mid + 1, Len(entries)), 1, build)]

\* the report for a non-empty list of entries; a raise inside
\* _calculate_trend leaves get_trends before the report is built.
\* "averages" rounds the three means for display and "period" formats
\* `days`; neither is part of the report here.
Analysed(u, entries, trends, build) ==
    IF "ZeroDivisionError" \in {trends.sleep, trends.heart_rate, trends.recovery}
    THEN [res |-> "ZeroDivisionError", val |-> None]
    ELSE [res |-> "ok",
          val |-> Some([user_id |-> u,
                        total_entries |-> Len(entries),
                        trends |-> trends,
                        compliance_distribution |-> StatusCounts(entries),
                        insights |-> _generate_insights(
                                         Values(entries, "sleep_hours"),
                                         Values(entries, "resting_hr"),
                                         Values(entries, "recovery_score"),
                                         StatusCounts(entries), build)])]

\* get_trends for the filtered entries
TrendReport(u, days, entries, build) ==
    IF entries = <<>> THEN [res |-> "ok", val |-> Some(NoDataReport(u, days))]
    ELSE Analysed(u, entries, Trends(entries, Len(entries) \div 2, build), build)

\* get_trends after _load_history
get_trends(users, u, days, t, build) ==
    TrendReport(u, days, get_user_history(users, u, None, Some(days), t), build)

NoTx == [pre |-> EmptyUsers, post |-> EmptyUsers]

\* how a call ends when _save_history ended with `outcome`
Ended(outcome) ==
    IF outcome = "complete" THEN "ok"
    ELSE IF outcome = "crash" THEN "crashed"
    ELSE "error"

NoneReturned == [u \in Users |-> <<>>]

\* no call is under way and no response is waiting for the caller
NoCall ==
    [op |-> "none", user |-> "", args |-> <<>>, saw |-> "json", res |-> "none",
     val |-> None]

\* AddEntryReturn with the exception of _save_history caught and dropped
AddEntryReturn_Swallowed(outcome, entry) ==
    IF outcome = "crash" THEN None ELSE Some(entry)

\* what add_entry hands back after _save_history ended with `outcome`:
\* an exception of _save_history leaves add_entry before `return entry`
AddEntryReturn(outcome, entry) ==
    IF outcome = "complete" THEN Some(entry) ELSE None

\* UpdateReturn without the raise ValueError
UpdateReturn_Silent(outcome, r) == Ended(outcome)

\* what update_workout_completion hands back for `r` after _save_history
UpdateReturn(outcome, r) ==
    IF r.res = "NotFound" THEN "NotFound" ELSE Ended(outcome)

TotalEntries(users) ==
    LET RECURSIVE Sum(_)
        Sum(S) == IF S = {} THEN 0
                  ELSE LET u == CHOOSE x \in S : TRUE
                       IN  Len(users[u].entries) + Sum(S \ {u})
    IN  Sum(DOMAIN users)

\* the arguments the calls are tried with: the reading fetch_biometrics makes
\* of a request without values (7.0 h, 60 bpm, recovery 70), which the /coach
\* handler passes on with check_compliance of it, and one text
Readings ==
    {[sleep_hours |-> Some(70), resting_hr |-> Some(60), recovery_score |-> Some(70)]}
Recommendations == {<<114, 101, 115, 116>>}
Limits == {None, Some(0), Some(1)}
Days == {None, Some(0), Some(1)}
EntryIds == 1..(MaxEntries + 1)

(***************************************************************************)
(* The calls of one HistoryManager, one at a time.                         *)
(***************************************************************************)
\* add_entry, from _load_history to the return or the exception.  The store
\* is kept to MaxEntries entries; when the load fails nothing is saved, so
\* only the outcome "complete" stands for that case.
AddEntryCall(u, biometrics, compliance, plan, recommendation, completed, outcome) ==
    LET ld == _load_history(file)
        r == add_entry(ld.users, u, biometrics, compliance, plan, recommendation,
                       completed, now)
        out == AddEntryReturn(outcome, r.entry)
    IN  /\ resp' = [op |-> "add_entry", user |-> u,
                    args |-> <<plan, completed, biometrics, compliance,
                               recommendation>>,
                    saw |-> file.kind,
                    res |-> IF ~Loaded(ld) THEN "error"
                            ELSE IF IsNone(out) THEN Ended(outcome) ELSE "ok",
                    val |-> IF Loaded(ld) THEN out ELSE None]
        /\ IF Loaded(ld)
           THEN /\ TotalEntries(ld.users) < MaxEntries
                /\ file' = _save_history(file, r.users, outcome)
                /\ io' = outcome
                /\ tx' = [pre |-> ld.users, post |-> r.users]
                /\ returned' = IF file' = BadFile("garbage") THEN NoneReturned
                               ELSE IF IsNone(out) THEN returned
                               ELSE [returned EXCEPT ![u] = Append(@, Val(out))]
           ELSE /\ outcome = "complete"
                /\ io' = "none"
                /\ tx' = NoTx
                /\ UNCHANGED <<file, returned>>
        /\ UNCHANGED <<now, evalVars, clientVars>>

\* update_workout_completion, from _load_history to the return or the
\* exception; _save_history runs only when the entry was found
UpdateCall(u, id, completed, outcome) ==
    LET ld == _load_history(file)
        r == update_workout_completion(ld.users, u, id, completed, now)
        res == UpdateReturn(outcome, r)
    IN  /\ resp' = [op |-> "update_workout_completion", user |-> u,
                    args |-> <<id, completed>>, saw |-> file.kind,
                    res |-> IF Loaded(ld) THEN res ELSE "error",
                    val |-> IF Loaded(ld) /\ res = "ok" THEN r.entry ELSE None]
        /\ IF Loaded(ld) /\ r.res = "ok"
           THEN /\ file' = _save_history(file, r.users, outcome)
                /\ io' = outcome
                /\ tx' = [pre |-> ld.users, post |-> r.users]
           ELSE /\ outcome = "complete"
                /\ io' = "none"
                /\ tx' = IF Loaded(ld) THEN [pre |-> ld.users, post |-> r.users]
                         ELSE NoTx
                /\ file' = file
        /\ returned' = IF file' = BadFile("garbage") THEN NoneReturned ELSE returned
        /\ UNCHANGED <<now, evalVars, clientVars>>

AddEntry ==
    /\ resp = NoCall
    /\ \E u \in Users, b \in Readings, plan \in Plans,
          recommendation \in Recommendations, completed \in BOOLEAN :
        AddEntryCall(u, b, check_compliance(b), plan, recommendation, completed,
                     "complete")

UpdateWorkoutCompletion ==
    /\ resp = NoCall
    /\ \E u \in Users, id \in EntryIds, completed \in BOOLEAN :
        UpdateCall(u, id, completed, "complete")

GetUserHistory ==
    /\ resp = NoCall
    /\ \E u \in Users, limit \in Limits, days \in Days :
        LET ld == _load_history(file)
        IN  /\ resp' = [op |-> "get_user_history", user |-> u,
                        args |-> <<limit, days>>, saw |-> file.kind,
                        res |-> IF Loaded(ld) THEN "ok" ELSE "error",
                        val |-> IF Loaded(ld)
                                THEN get_user_history(ld.users, u, limit, days, now)
                                ELSE None]
            /\ io' = "none"
            /\ tx' = NoTx
            /\ UNCHANGED <<file, now, returned, evalVars, clientVars>>

GetStats ==
    /\ resp = NoCall
    /\ \E u \in Users :
        LET ld == _load_history(file)
        IN  /\ resp' = [op |-> "get_stats", user |-> u, args |-> <<>>,
                        saw |-> file.kind,
                        res |-> IF Loaded(ld) THEN "ok" ELSE "error",
                        val |-> IF Loaded(ld) THEN Some(get_stats(ld.users, u))
                                ELSE None]
            /\ io' = "none"
            /\ tx' = NoTx
            /\ UNCHANGED <<file, now, returned, evalVars, clientVars>>

\* the caller takes the response; the next call can begin
Receive ==
    /\ resp # NoCall
    /\ resp.res # "crashed"
    /\ resp' = NoCall
    /\ io' = "none"
    /\ tx' = NoTx
    /\ UNCHANGED <<file, now, returned, evalVars, clientVars>>

\* datetime.now() moves on between calls
Tick ==
    /\ resp = NoCall
    /\ now < MaxTime
    /\ now' = now + 1
    /\ UNCHANGED <<file, resp, io, tx, returned, evalVars, clientVars>>

IdleEval == /\ snap = NoResult
            /\ result = NoResult

IdleClients == /\ pc = <<>>
               /\ hist = <<>>

\* HistoryManager(): _ensure_file_exists writes {"users": {}} to a new file
InitStore ==
    /\ file = JsonFile(EmptyUsers)
    /\ now = 0
    /\ resp = NoCall
    /\ io = "none"
    /\ tx = NoTx
    /\ returned = NoneReturned

Init ==
    /\ InitStore
    /\ IdleEval
    /\ IdleClients

Next ==
    \/ AddEntry
    \/ UpdateWorkoutCompletion
    \/ GetUserHistory
    \/ GetStats
    \/ Receive
    \/ Tick

Spec == Init /\ [][Next]_vars

(***************************************************************************)
(* The same calls with a file system that can fail, a process that can     *)
(* die inside _save_history, and a file that can be deleted, overwritten   *)
(* or locked from outside.                                                 *)
(***************************************************************************)
Faults == SaveOutcomes \ {"complete"}

AddEntryFault ==
    /\ resp = NoCall
    /\ \E u \in Users, b \in Readings, plan \in Plans,
          recommendation \in Recommendations, completed \in BOOLEAN,
          outcome \in Faults :
        /\ Loaded(_load_history(file))
        /\ AddEntryCall(u, b, check_compliance(b), plan, recommendation, completed,
                        outcome)

UpdateFault ==
    /\ resp = NoCall
    /\ \E u \in Users, id \in EntryIds, completed \in BOOLEAN, outcome \in Faults :
        /\ Loaded(_load_history(file))
        /\ update_workout_completion(_load_history(file).users, u, id,
                                     completed, now).res = "ok"
        /\ UpdateCall(u, id, completed, outcome)

\* the file is deleted, overwritten or locked by something else
DamageFile ==
    \E kind \in BadKinds :
        /\ resp = NoCall
        /\ file.kind = "json"
        /\ file' = BadFile(kind)
        /\ returned' = NoneReturned
        /\ UNCHANGED <<now, resp, io, tx, evalVars, clientVars>>

\* HistoryManager() after a restart: _ensure_file_exists
Restart ==
    /\ resp.res = "crashed"
    /\ file' = IF file.kind = "missing" THEN JsonFile(EmptyUsers) ELSE file
    /\ resp' = NoCall
    /\ io' = "none"
    /\ tx' = NoTx
    /\ UNCHANGED <<now, returned, evalVars, clientVars>>

NextFault ==
    \/ AddEntry
    \/ UpdateWorkoutCompletion
    \/ GetUserHistory
    \/ GetStats
    \/ Receive
    \/ Tick
    \/ AddEntryFault
    \/ UpdateFault
    \/ DamageFile
    \/ Restart

SpecFault == Init /\ [][NextFault]_vars

(***************************************************************************)
(* add_entry with recommendation texts of different lengths.               *)
(***************************************************************************)
TextLengths == {0, 1, 199, 200, 201, 250}

\* a text of n characters, no two neighbours alike
Text(n) == [i \in 1..n |-> 97 + (i % 26)]

Texts == {Text(n) : n \in TextLengths}

AddEntryText ==
    /\ resp = NoCall
    /\ \E u \in Users, b \in Readings, plan \in Plans, recommendation \in Texts :
        AddEntryCall(u, b, check_compliance(b), plan, recommendation, FALSE,
                     "complete")

NextPreview ==
    \/ AddEntryText
    \/ Receive

SpecPreview == Init /\ [][NextPreview]_vars

(***************************************************************************)
(* The reads of a store that already holds a history: get_trends,          *)
(* get_user_history and get_stats on histories logged earlier.             *)
(***************************************************************************)
\* a biometrics dict with all three values: sleep in tenths of an hour
Reading(sleep, hr, recovery) ==
    [sleep_hours |-> Some(sleep), resting_hr |-> Some(hr),
     recovery_score |-> Some(recovery)]

\* the store after add_entry was called for u with each reading in turn and
\* the result of check_compliance for it, as the /coach handler does, on day 0
RECURSIVE Logged(_, _, _)
Logged(users, u, readings) ==
    IF readings = <<>> THEN users
    ELSE Logged(add_entry(users, u, Head(readings),
                          check_compliance(Head(readings)), "run",
                          <<114, 101, 115, 116>>, FALSE, 0).users,
                u, Tail(readings))

TrendReadings ==
    {Reading(60, 60, 60), Reading(70, 63, 63), Reading(80, 57, 57),
     Reading(84, 72, 100), Reading(0, 96, 0), Reading(45, 55, 39),
     Reading(70, 81, 60), Reading(70, 59, 60)}

\* histories of six and of three entries whose halves have means that are
\* no whole numbers
LongHistories ==
    {<<Reading(70, 66, 70), Reading(70, 67, 70), Reading(70, 67, 70),
       Reading(70, 63, 70), Reading(70, 63, 70), Reading(70, 64, 70)>>,
     <<Reading(71, 65, 70), Reading(97, 65, 70), Reading(42, 65, 70)>>,
     <<Reading(75, 65, 85), Reading(60, 75, 70), Reading(90, 58, 90)>>}

Histories ==
    {<<>>} \cup {<<a>> : a \in TrendReadings}
    \cup {<<a, b>> : a \in TrendReadings, b \in TrendReadings}
    \cup LongHistories

\* days: int = 30 of the /trends endpoint
TrendDays == {0, 1, 30}

\* the response of get_trends for the result r
TrendsResponse(u, days, build, saw, loaded, r) ==
    [op |-> "get_trends", user |-> u, args |-> <<days, build>>, saw |-> saw,
     res |-> IF loaded THEN r.res ELSE "error",
     val |-> IF loaded THEN r.val ELSE None]

GetTrends ==
    /\ resp = NoCall
    /\ \E u \in Users, days \in TrendDays, build \in SumBuilds :
        /\ resp' = TrendsResponse(u, days, build, file.kind,
                                  Loaded(_load_history(file)),
                                  get_trends(_load_history(file).users, u, days,
                                             now, build))
        /\ io' = "none"
        /\ tx' = NoTx
        /\ UNCHANGED <<file, now, returned, evalVars, clientVars>>

InitTrend ==
    /\ \E h \in Histories : file = JsonFile(Logged(EmptyUsers, "u1", h))
    /\ now = 0
    /\ resp = NoCall
    /\ io = "none"
    /\ tx = NoTx
    /\ returned = NoneReturned
    /\ IdleEval
    /\ IdleClients

NextTrend ==
    \/ GetTrends
    \/ GetUserHistory
    \/ GetStats
    \/ Receive
    \/ Tick

SpecTrend == InitTrend /\ [][NextTrend]_vars

(***************************************************************************)
(* check_compliance applied to one biometrics dict.                        *)
(***************************************************************************)
InitEval ==
    /\ InitStore
    /\ IdleClients
    /\ snap \in Snapshots
    /\ result = NoResult

Evaluate ==
    /\ result = NoResult
    /\ result' = Some(check_compliance(snap))
    /\ UNCHANGED <<snap, storeVars, clientVars>>

NextEval == Evaluate

SpecEval == InitEval /\ [][NextEval]_vars

(***************************************************************************)
(* Two callers of the store at once (two threads or two worker processes   *)
(* on the same file).  Nothing in add_entry or update_workout_completion   *)
(* holds a lock between _load_history and _save_history, so another        *)
(* caller's load or save can fall between the two.                         *)
(***************************************************************************)
Clients == {1, 2}

NoHist == [op |-> "none", user |-> "", users |-> EmptyUsers, entry |-> None]

InFlightAdds == Cardinality({c \in Clients : hist[c].op = "add_entry"})

TotalReturned ==
    LET RECURSIVE Sum(_)
        Sum(S) == IF S = {} THEN 0
                  ELSE LET u == CHOOSE x \in S : TRUE
                       IN  Len(returned[u]) + Sum(S \ {u})
    IN  Sum(Users)

\* add_entry up to the line before _save_history
BeginAddEntry(c) ==
    \E u \in Users, b \in Readings, plan \in Plans,
       recommendation \in Recommendations, completed \in BOOLEAN :
        LET ld == _load_history(file)
            r == add_entry(ld.users, u, b, check_compliance(b), plan,
                           recommendation, completed, now)
        IN  /\ pc[c] = "idle"
            /\ TotalReturned + InFlightAdds < MaxEntries
            /\ pc' = [pc EXCEPT ![c] = "loaded"]
            /\ hist' = [hist EXCEPT ![c] = [op |-> "add_entry", user |-> u,
                                            users |-> r.users,
                                            entry |-> Some(r.entry)]]
            /\ UNCHANGED <<storeVars, evalVars>>

\* update_workout_completion up to the line before _save_history, or to its
\* raise ValueError
BeginUpdate(c) ==
    \E u \in Users, id \in EntryIds, completed \in BOOLEAN :
        LET ld == _load_history(file)
            r == update_workout_completion(ld.users, u, id, completed, now)
        IN  /\ pc[c] = "idle"
            /\ IF r.res = "ok"
               THEN /\ pc' = [pc EXCEPT ![c] = "loaded"]
                    /\ hist' = [hist EXCEPT ![c] =
                                   [op |-> "update_workout_completion",
                                    user |-> u, users |-> r.users,
                                    entry |-> r.entry]]
                    /\ UNCHANGED resp
               ELSE /\ resp' = [op |-> "update_workout_completion", user |-> u,
                                args |-> <<id, completed>>, saw |-> file.kind,
                                res |-> "NotFound", val |-> None]
                    /\ UNCHANGED <<pc, hist>>
            /\ UNCHANGED <<file, now, io, tx, returned, evalVars>>

\* _save_history(history) and the return
CommitSave(c) ==
    /\ pc[c] = "loaded"
    /\ file' = _save_history(file, hist[c].users, "complete")
    /\ resp' = [op |-> hist[c].op, user |-> hist[c].user, args |-> <<>>,
                saw |-> file.kind, res |-> "ok", val |-> hist[c].entry]
    /\ returned' = IF hist[c].op = "add_entry"
                   THEN [returned EXCEPT ![hist[c].user] = Append(@, Val(hist[c].entry))]
                   ELSE returned
    /\ pc' = [pc EXCEPT ![c] = "idle"]
    /\ hist' = [hist EXCEPT ![c] = NoHist]
    /\ UNCHANGED <<now, io, tx, evalVars>>

InitConc ==
    /\ InitStore
    /\ IdleEval
    /\ pc = [c \in Clients |-> "idle"]
    /\ hist = [c \in Clients |-> NoHist]

NextConc ==
    \E c \in Clients :
        \/ BeginAddEntry(c)
        \/ BeginUpdate(c)
        \/ CommitSave(c)

SpecConc == InitConc /\ [][NextConc]_vars

(***************************************************************************)
(* Properties                                                              *)
(***************************************************************************)
Bit(b) == IF b THEN 1 ELSE 0

CountCompleted(entries) ==
    Cardinality({i \in 1..Len(entries) : entries[i].completed})

IsMutation(op) == op \in {"add_entry", "update_workout_completion"}

\* C1: in every user record of the persisted store, total_workouts is the
\* number of entries and completed_workouts is the number of entries whose
\* completed flag is true.
C1_CountersMatchEntries ==
    file.kind = "json" =>
        \A u \in DOMAIN file.users :
            /\ file.users[u].total_workouts = Len(file.users[u].entries)
            /\ file.users[u].completed_workouts = CountCompleted(file.users[u].entries)

\* C1 witness: a completion update has just been saved for a user with two
\* entries, one of them completed.
C1_Witness ==
    /\ resp.op = "update_workout_completion"
    /\ resp.res = "ok"
    /\ file.kind = "json"
    /\ resp.user \in DOMAIN file.users
    /\ Len(file.users[resp.user].entries) = 2
    /\ file.users[resp.user].completed_workouts = 1

\* C2: the i-th add_entry for a user returned the entry with id i, and
\* get_user_history without filters returns as many entries as were appended,
\* in the order of the appends, with ids 1..N.
C2_IdsFollowAppendOrder ==
    /\ \A u \in Users : \A i \in 1..Len(returned[u]) : returned[u][i].id = i
    /\ (resp.op = "get_user_history" /\ resp.args = <<None, None>>) =>
           /\ Len(resp.val) = Len(returned[resp.user])
           /\ \A i \in 1..Len(resp.val) :
                  /\ resp.val[i].id = i
                  /\ resp.val[i].timestamp = returned[resp.user][i].timestamp
                  /\ resp.val[i].workout_plan = returned[resp.user][i].workout_plan

\* C2 witness: an unfiltered list of two entries, appended on different days,
\* the first of which had its completion updated in between.
C2_Witness ==
    /\ resp.op = "get_user_history"
    /\ resp.args = <<None, None>>
    /\ Len(resp.val) = 2
    /\ resp.val[1].completed_at # None
    /\ resp.val[1].timestamp < resp.val[2].timestamp

\* C3: a saved completion update changes completed_workouts by +1 on a
\* false -> true transition of the entry's flag, by -1 on true -> false, and
\* by 0 when the flag already had the value.
C3_CounterFollowsTransition ==
    (resp.op = "update_workout_completion" /\ resp.res = "ok") =>
        LET u == resp.user
            old == tx.pre[u]
            i == CHOOSE k \in 1..Len(old.entries) : old.entries[k].id = resp.args[1]
        IN  file.users[u].completed_workouts - old.completed_workouts
                = Bit(resp.args[2]) - Bit(old.entries[i].completed)

\* C3 witness: an entry already set to completed by an earlier update is set
\* to completed again.
C3_Witness ==
    /\ resp.op = "update_workout_completion"
    /\ resp.res = "ok"
    /\ resp.args[2] = TRUE
    /\ \E k \in 1..Len(tx.pre[resp.user].entries) :
           /\ tx.pre[resp.user].entries[k].id = resp.args[1]
           /\ tx.pre[resp.user].entries[k].completed
           /\ tx.pre[resp.user].entries[k].completed_at # None

\* C4: after a crash or a write failure inside the save of a mutation, the
\* next load sees the store as it was before the call or as the call meant
\* to leave it.
C4_CrashLeavesOldOrNew ==
    (IsMutation(resp.op) /\ io \in {"write_failed", "crash"}) =>
        /\ Loaded(_load_history(file))
        /\ _load_history(file).users \in {tx.pre, tx.post}

\* C5: once no call is under way, every entry an add_entry call returned is
\* in the persisted store: the user has as many entries as appends were
\* acknowledged, total_workouts counts them, and their ids differ.
C5_NoLostUpdate ==
    (\A c \in DOMAIN pc : pc[c] = "idle") =>
        \A u \in Users :
            Len(returned[u]) > 0 =>
                /\ u \in DOMAIN file.users
                /\ Len(file.users[u].entries) = Len(returned[u])
                /\ file.users[u].total_workouts = Len(returned[u])
                /\ \A i, j \in 1..Len(returned[u]) :
                       i # j => returned[u][i].id # returned[u][j].id

\* C6: when add_entry returns an entry, the persisted store holds that entry
\* as the user's last one and the counters count it; when the write failed,
\* the caller gets an error and no entry.
C6_AckOnlyAfterSave ==
    resp.op = "add_entry" =>
        /\ resp.val # None =>
               /\ resp.res = "ok"
               /\ file.kind = "json"
               /\ resp.user \in DOMAIN file.users
               /\ LET rec == file.users[resp.user]
                      n == Len(rec.entries)
                  IN  /\ n > 0
                      /\ rec.entries[n] = Val(resp.val)
                      /\ rec.total_workouts = n
                      /\ rec.completed_workouts = CountCompleted(rec.entries)
        /\ io \in {"open_failed", "write_failed"} =>
               /\ resp.res = "error"
               /\ resp.val = None

\* C6 witness: the write of an add_entry failed after a first entry had been
\* stored, and the caller got the error.
C6_Witness ==
    /\ resp.op = "add_entry"
    /\ io = "write_failed"
    /\ resp.res = "error"
    /\ resp.user \in DOMAIN tx.pre

\* C7: update_workout_completion for a user without a record, or for an id
\* none of the user's entries has, fails with NotFound and leaves the
\* persisted store as it was.
C7_NotFoundChangesNothing ==
    (resp.op = "update_workout_completion" /\ resp.saw = "json"
        /\ (\/ resp.user \notin DOMAIN tx.pre
            \/ \A k \in 1..Len(tx.pre[resp.user].entries) :
                   tx.pre[resp.user].entries[k].id # resp.args[1])) =>
        /\ resp.res = "NotFound"
        /\ resp.val = None
        /\ io = "none"
        /\ file = JsonFile(tx.pre)

\* C7 witness: the user has two entries and the id asked for is a third.
C7_Witness ==
    /\ resp.op = "update_workout_completion"
    /\ resp.res = "NotFound"
    /\ resp.user \in DOMAIN file.users
    /\ Len(file.users[resp.user].entries) = 2
    /\ resp.args[1] = 3

\* C8: a call that finds the file missing, unparseable, unreadable or without
\* the user mapping does not fail and answers as on a store with no users.
C8_BadFileIsEmptyStore ==
    (resp.saw \in BadKinds /\ io \in {"none", "complete"}) =>
        /\ resp.op = "get_user_history" =>
               (resp.res = "ok" /\ resp.val = <<>>)
        /\ resp.op = "get_stats" =>
               (resp.res = "ok" /\ resp.val = Some(get_stats(EmptyUsers, resp.user)))
        /\ resp.op = "add_entry" =>
               /\ resp.res = "ok"
               /\ resp.val = Some(add_entry(EmptyUsers, resp.user, resp.args[3],
                                            resp.args[4], resp.args[1],
                                            resp.args[5], resp.args[2], now).entry)

Evaluated == result # NoResult
Sleep == Get(snap.sleep_hours, 0)
Hr == Get(snap.resting_hr, 0)
Recovery == Get(snap.recovery_score, 0)

\* C9: the status is Critical if sleep < 5.0 or hr > 95 or recovery < 40,
\* otherwise Warning if sleep < 6.0 or hr > 80 or recovery < 60, otherwise
\* Optimal; with sleep >= 6, hr <= 80 and recovery >= 60 the status is
\* Optimal, the severity score 0 and there are no reasons.
C9_StatusIsMostSevereTier ==
    Evaluated =>
        LET r == Val(result)
            critical == Sleep < 50 \/ Hr > 95 \/ Recovery < 40
            warning == Sleep < 60 \/ Hr > 80 \/ Recovery < 60
        IN  /\ r.status = IF critical THEN "Critical"
                          ELSE IF warning THEN "Warning" ELSE "Optimal"
            /\ (Sleep >= 60 /\ Hr <= 80 /\ Recovery >= 60) =>
                   (r.status = "Optimal" /\ r.severity_score = 0 /\ r.reasons = <<>>)

\* C9 witness: sleep is critical and the two later metrics trigger the
\* warning tier only.
C9_Witness ==
    /\ Evaluated
    /\ Sleep < 50
    /\ Hr > 80 /\ Hr <= 95
    /\ Recovery >= 40 /\ Recovery < 60
    /\ Val(result).status = "Critical"

\* C10: the severity score is the sum over sleep, heart rate and recovery of
\* 3 for a metric in its critical tier, 1 for one in its warning tier only,
\* 0 otherwise.
C10_SeverityIsSumOfPenalties ==
    Evaluated =>
        Val(result).severity_score
            = (IF Sleep < 50 THEN 3 ELSE IF Sleep < 60 THEN 1 ELSE 0)
            + (IF Hr > 95 THEN 3 ELSE IF Hr > 80 THEN 1 ELSE 0)
            + (IF Recovery < 40 THEN 3 ELSE IF Recovery < 60 THEN 1 ELSE 0)

\* C10 witness: heart rate and recovery are both critical, sleep is in range,
\* and the score is 6.
C10_Witness ==
    /\ Evaluated
    /\ Sleep >= 60
    /\ Hr > 95
    /\ Recovery < 40
    /\ Val(result).severity_score = 6

(***************************************************************************)
(* C11: for every snapshot, reasons holds exactly one reason per metric    *)
(* that triggers a tier, in the order sleep, heart rate, recovery; a       *)
(* metric in the critical tier yields its critical reason only, a metric   *)
(* within range yields none, and each reason carries the observed value.   *)
(***************************************************************************)
C11_ReasonsOnePerTriggeredMetric ==
    Evaluated =>
        LET sleepReason == IF Sleep < 50 THEN <<Reason("CRITICAL", "sleep", Sleep)>>
                           ELSE IF Sleep < 60 THEN <<Reason("Warning", "sleep", Sleep)>>
                           ELSE <<>>
            hrReason == IF Hr > 95 THEN <<Reason("CRITICAL", "resting_hr", Hr)>>
                        ELSE IF Hr > 80 THEN <<Reason("Warning", "resting_hr", Hr)>>
                        ELSE <<>>
            recoveryReason ==
                IF Recovery < 40 THEN <<Reason("CRITICAL", "recovery_score", Recovery)>>
                ELSE IF Recovery < 60 THEN <<Reason("Warning", "recovery_score", Recovery)>>
                ELSE <<>>
        IN  Val(result).reasons = sleepReason \o hrReason \o recoveryReason

\* hr 96 and recovery 39 with sleep in range: two reasons, hr then recovery
C11_Witness ==
    /\ Evaluated
    /\ Sleep = 75 /\ Hr = 96 /\ Recovery = 39
    /\ Len(Val(result).reasons) = 2
    /\ Val(result).reasons[1].metric = "resting_hr"
    /\ Val(result).reasons[2].metric = "recovery_score"

(***************************************************************************)
(* C20: check_compliance returns a result for every snapshot; with any     *)
(* subset of the three fields missing the result is the one computed with  *)
(* each missing field taken as 0; the snapshot handed in is returned       *)
(* unmodified and the stored history is untouched.                         *)
(***************************************************************************)
C20_MissingFieldsReadAsZero ==
    Evaluated =>
        LET Zero(o) == IF IsNone(o) THEN Some(0) ELSE o
            filled == [sleep_hours |-> Zero(snap.sleep_hours),
                       resting_hr |-> Zero(snap.resting_hr),
                       recovery_score |-> Zero(snap.recovery_score)]
            expected == check_compliance(filled)
            r == Val(result)
        IN  /\ r.status = expected.status
            /\ r.severity_score = expected.severity_score
            /\ r.reasons = expected.reasons
            /\ r.priority_message = expected.priority_message
            /\ r.biometrics = snap
            /\ file = JsonFile(EmptyUsers)
            /\ returned = NoneReturned

\* an empty snapshot: every field read as 0, sleep and recovery critical
C20_Witness ==
    /\ Evaluated
    /\ IsNone(snap.sleep_hours) /\ IsNone(snap.resting_hr) /\ IsNone(snap.recovery_score)
    /\ Val(result).status = "Critical"
    /\ Val(result).severity_score = 6
    /\ Len(Val(result).reasons) = 2

(***************************************************************************)
(* C12: when a limit is given, 0 and limits above the number of entries    *)
(* included, get_user_history returns the last min(limit, n) of the n      *)
(* entries left by the day filter, in chronological order.                 *)
(***************************************************************************)
C12_LimitKeepsLastN ==
    (resp.op = "get_user_history" /\ resp.res = "ok" /\ ~IsNone(resp.args[1])) =>
        LET limit == Val(resp.args[1])
            filtered == get_user_history(file.users, resp.user, None, resp.args[2], now)
            n == Len(filtered)
            k == IF limit < n THEN limit ELSE n
        IN  resp.val = SubSeq(filtered, n - k + 1, n)

(***************************************************************************)
(* C13: when days is given, 0 included, get_user_history considers the     *)
(* entries stamped within that many days before now and no others: no      *)
(* entry older than the window is returned, every entry inside it is       *)
(* (when no limit is given), and the order is the stored one.              *)
(***************************************************************************)
C13_DaysKeepsTrailingWindow ==
    (resp.op = "get_user_history" /\ resp.res = "ok" /\ ~IsNone(resp.args[2])
        /\ resp.user \in DOMAIN file.users) =>
        LET days == Val(resp.args[2])
            all == file.users[resp.user].entries
            InWindow(e) == e.timestamp > now - days
        IN  /\ \A i \in 1..Len(resp.val) : resp.val[i].timestamp >= now - days
            /\ IsNone(resp.args[1]) =>
                   /\ \A i \in 1..Len(all) :
                          InWindow(all[i]) =>
                              \E j \in 1..Len(resp.val) : resp.val[j] = all[i]
                   /\ \A i, j \in 1..Len(resp.val) :
                          i < j => resp.val[i].id < resp.val[j].id

(***************************************************************************)
(* C19: for a recommendation text of any length, empty and shorter than    *)
(* 200 characters included, add_entry succeeds and stores as               *)
(* recommendation_preview the first min(200, length) characters of the     *)
(* text followed by "...".                                                 *)
(***************************************************************************)
C19_PreviewIsPrefixPlusEllipsis ==
    resp.op = "add_entry" =>
        /\ resp.res = "ok"
        /\ LET text == resp.args[5]
               k == IF Len(text) < 200 THEN Len(text) ELSE 200
               stored == file.users[resp.user].entries
               preview == stored[Len(stored)].recommendation_preview
           IN  /\ Val(resp.val).recommendation_preview = preview
               /\ Len(preview) = k + 3
               /\ \A i \in 1..k : preview[i] = text[i]
               /\ \A i \in (k + 1)..(k + 3) : preview[i] = 46

\* a text of 250 characters stored as 203, and an empty one stored as "..."
C19_Witness ==
    /\ resp.op = "add_entry"
    /\ Len(resp.args[5]) = 250
    /\ Len(Val(resp.val).recommendation_preview) = 203
    /\ \E u \in DOMAIN file.users :
           \E i \in 1..Len(file.users[u].entries) :
               file.users[u].entries[i].recommendation_preview = <<46, 46, 46>>

(***************************************************************************)
(* C18: entries are created only by add_entry, never deleted or reordered, *)
(* and changed only by update_workout_completion.  Across every call of    *)
(* the store each entry persisted before it is still there afterwards, at  *)
(* the same position, with the same id, timestamp, biometrics, compliance, *)
(* workout_plan, recommendation_preview and metadata; a successful         *)
(* update_workout_completion changes the target entry's completed and      *)
(* completed_at (set on every successful call) and the user's              *)
(* completed_workouts, and nothing else; every other call leaves the       *)
(* existing entries as they are.                                           *)
(***************************************************************************)
C18_EntriesOnlyAppendedOrCompleted ==
    [][(resp = NoCall /\ resp' # NoCall /\ file.kind = "json") =>
        LET old == file.users
            new == _load_history(file').users
            SameFrame(a, b) ==
                /\ a.id = b.id
                /\ a.timestamp = b.timestamp
                /\ a.biometrics = b.biometrics
                /\ a.compliance = b.compliance
                /\ a.workout_plan = b.workout_plan
                /\ a.recommendation_preview = b.recommendation_preview
                /\ a.metadata = b.metadata
            updated == resp'.op = "update_workout_completion" /\ resp'.res = "ok"
        IN  \A u \in DOMAIN old :
                /\ u \in DOMAIN new
                /\ Len(new[u].entries) >= Len(old[u].entries)
                /\ new[u].created_at = old[u].created_at
                /\ \A i \in 1..Len(old[u].entries) :
                       LET a == old[u].entries[i]
                           b == new[u].entries[i]
                           target == /\ updated
                                     /\ u = resp'.user
                                     /\ i = FindEntry(old[u].entries, resp'.args[1])
                       IN  /\ SameFrame(a, b)
                           /\ IF target
                              THEN /\ b.completed = resp'.args[2]
                                   /\ b.completed_at = Some(now)
                              ELSE b = a
                /\ updated =>
                       /\ Len(new[u].entries) = Len(old[u].entries)
                       /\ new[u].total_workouts = old[u].total_workouts
                       /\ u # resp'.user =>
                              new[u].completed_workouts = old[u].completed_workouts
       ]_vars

(***************************************************************************)
(* Properties of the reads: get_trends, get_user_history, get_stats.       *)
(***************************************************************************)
Reads == {"get_user_history", "get_stats", "get_trends"}

\* C14: a read of a user with no record never fails and never creates
\* state: get_user_history returns the empty sequence, get_stats the
\* zero-state payload (total_workouts 0, completed_workouts 0,
\* completion_rate 0), get_trends the no-data report carrying the user_id
\* and the days requested, and the persisted store is the same afterwards
\* (no user record is created by a read).
C14_ReadsOfUnknownUserAreEmptyAndPure ==
    [][(/\ resp = NoCall
        /\ resp'.op \in Reads
        /\ file.kind = "json"
        /\ resp'.user \notin DOMAIN file.users) =>
           /\ file' = file
           /\ resp'.res = "ok"
           /\ resp'.op = "get_user_history" => resp'.val = <<>>
           /\ resp'.op = "get_stats" =>
                  /\ Val(resp'.val).user_id = resp'.user
                  /\ Val(resp'.val).total_workouts = 0
                  /\ Val(resp'.val).completed_workouts = 0
                  /\ Val(resp'.val).completion_rate = 0
           /\ resp'.op = "get_trends" =>
                  /\ Val(resp'.val).error = "no_data"
                  /\ Val(resp'.val).user_id = resp'.user
                  /\ Val(resp'.val).days_analyzed = resp'.args[1]
       ]_vars

\* get_trends answered for a user without a record, asked for 1 day, while
\* another user has a history in the store
C14_Witness ==
    /\ resp.op = "get_trends"
    /\ resp.res = "ok"
    /\ file.users # EmptyUsers
    /\ resp.user \notin DOMAIN file.users
    /\ resp.args[1] = 1
    /\ Val(resp.val).days_analyzed = 1

\* the entries the answered get_trends analysed
Analysed_Entries ==
    get_user_history(file.users, resp.user, None, Some(resp.args[1]), now)

\* get_trends has answered with a report over at least one entry
TrendsReported ==
    /\ resp.op = "get_trends"
    /\ resp.res = "ok"
    /\ Analysed_Entries # <<>>

\* the direction by the exact change of the means s1 / n1 and s2 / n2, for
\* s1 > 0: (s2 / n2 - s1 / n1) / (s1 / n1) * 100 against 5 and -5
ExactDirection(s1, n1, s2, n2) ==
    IF 100 * (s2 * n1 - s1 * n2) > 5 * s1 * n2 THEN "improving"
    ELSE IF 100 * (s2 * n1 - s1 * n2) < -5 * s1 * n2 THEN "declining"
    ELSE "stable"

Metrics ==
    {[key |-> "sleep_hours", trend |-> "sleep"],
     [key |-> "resting_hr", trend |-> "heart_rate"],
     [key |-> "recovery_score", trend |-> "recovery"]}

\* C15: the n filtered entries are split at floor(n/2); with one entry every
\* direction is insufficient_data; otherwise, for each of sleep, resting_hr
\* and recovery, the direction is improving iff (mean(second) - mean(first))
\* / mean(first) * 100 > 5, declining iff it is < -5, and stable otherwise,
\* a change of exactly +5% or -5% being stable, with the same rule for
\* resting_hr (a rise in heart rate is reported as improving).
C15_DirectionByPercentChange ==
    TrendsReported =>
        LET entries == Analysed_Entries
            n == Len(entries)
            mid == n \div 2
        IN  \A metric \in Metrics :
                LET values == Values(entries, metric.key)
                    s1 == SumInts(SubSeq(values, 1, mid))
                    s2 == SumInts(SubSeq(values, mid + 1, n))
                    direction == Val(resp.val).trends[metric.trend]
                IN  IF mid = 0 THEN direction = "insufficient_data"
                    ELSE s1 > 0 => direction = ExactDirection(s1, mid, s2, n - mid)

\* C16: for every user whose filtered history is non-empty, whatever the
\* biometric values (sleep_hours >= 0, resting_hr >= 0, recovery_score
\* 0..100, a first-half mean of 0 included), get_trends returns a report
\* without failing, and the direction of each metric is one of improving,
\* declining, stable, insufficient_data.
C16_TrendsNeverFail ==
    (resp.op = "get_trends" /\ file.kind = "json" /\ Analysed_Entries # <<>>) =>
        /\ resp.res = "ok"
        /\ \A metric \in Metrics :
               Val(resp.val).trends[metric.trend] \in Directions

\* the insights whose condition holds for the exact means and shares
ExactInsights(entries) ==
    LET n == Len(entries)
        sleep == SumInts(Values(entries, "sleep_hours"))
        hr == SumInts(Values(entries, "resting_hr"))
        recovery == SumInts(Values(entries, "recovery_score"))
        Count(status) ==
            Cardinality({i \in 1..n : entries[i].compliance.status = status})
    IN  (IF sleep < 70 * n THEN <<"low_sleep">>
         ELSE IF sleep >= 80 * n THEN <<"good_sleep">> ELSE <<>>)
        \o (IF hr > 70 * n THEN <<"high_hr">>
            ELSE IF hr < 60 * n THEN <<"good_hr">> ELSE <<>>)
        \o (IF 100 * Count("Critical") > 20 * n THEN <<"critical_share">>
            ELSE <<>>)
        \o (IF 100 * Count("Optimal") > 70 * n THEN <<"optimal_share">>
            ELSE <<>>)
        \o (IF recovery < 60 * n THEN <<"low_recovery">> ELSE <<>>)

\* C17: the insights of a trend report are exactly the insights whose
\* condition holds over the filtered entries, in the order of the checks:
\* mean sleep < 7 (low sleep) or >= 8 (positive), mean resting_hr > 70
\* (elevated) or < 60 (positive), Critical share > 20%, Optimal share > 70%,
\* mean recovery_score < 60; several may occur together, and the list is the
\* single placeholder insight iff none of the conditions holds.
C17_InsightsAreThoseWhoseConditionHolds ==
    TrendsReported =>
        Val(resp.val).insights =
            IF ExactInsights(Analysed_Entries) = <<>> THEN <<"keep_logging">>
            ELSE ExactInsights(Analysed_Entries)

(***************************************************************************)
(* C21: mutations are isolated per user.  An add_entry or an               *)
(* update_workout_completion for user A that succeeds or fails with        *)
(* NotFound leaves the persisted record of every other user B as it was:   *)
(* B's entries, created_at, total_workouts and completed_workouts are the  *)
(* same before and after, and B has a record after iff B had one before,   *)
(* for every store state, a file that loads as the empty store included.   *)
(***************************************************************************)
C21_MutationsTouchOneUser ==
    [][(/\ resp = NoCall
        /\ IsMutation(resp'.op)
        /\ resp'.res \in {"ok", "NotFound"}) =>
           \A b \in Users \ {resp'.user} :
               LET old == _load_history(file).users
                   new == _load_history(file').users
               IN  /\ b \in DOMAIN new <=> b \in DOMAIN old
                   /\ b \in DOMAIN old =>
                          /\ new[b].entries = old[b].entries
                          /\ new[b].created_at = old[b].created_at
                          /\ new[b].total_workouts = old[b].total_workouts
                          /\ new[b].completed_workouts = old[b].completed_workouts
       ]_vars

\* add_entry has succeeded for one user while another user holds an entry
\* that is completed
C21_Witness ==
    /\ resp.op = "add_entry"
    /\ resp.res = "ok"
    /\ file.kind = "json"
    /\ Len(file.users[resp.user].entries) = 1
    /\ \E b \in DOMAIN file.users \ {resp.user} :
           /\ Len(file.users[b].entries) = 1
           /\ file.users[b].completed_workouts = 1

====
